---- MODULE Spec2Model ----
(***************************************************************************)
(* A model of django-crowdsourcing's views (crowdsourcing/views.py) and    *)
(* admin validation (crowdsourcing/admin.py).                              *)
(*                                                                         *)
(* One Survey row, the Submission and Answer tables, and the last request  *)
(* handled with the response it got.  Spec runs the entry view and the     *)
(* admin one request at a time; SpecConc splits the entry view at its      *)
(* database write so that two requests interleave; SpecReport and          *)
(* SpecAggregate run the read-only result views over arbitrary tables;     *)
(* SpecAdmin runs the admin's fieldname validation.                        *)
(***************************************************************************)
EXTENDS Integers, Sequences, FiniteSets

VARIABLES
    survey,        \* the live Survey row's flags
    questions,     \* survey.questions: the question text of each, by id
    reports,       \* survey.surveyreport_set: the slugs of its reports
    submissions,   \* the Submission table of the survey, by id
    answers,       \* the Answer table
    request,       \* the last request handled
    response,      \* and the response it got
    procs          \* SpecConc: the requests in flight

vars == <<survey, questions, reports, submissions, answers, request, response, procs>>

---------------------------------------------------------------------------
(* Bounds of the model. *)

MaxSubmissions == 2
MaxAnswers == 3
\* The longest fieldname tried.
MaxLen == 3
\* The largest limit, offset and page a request asks for.
MaxParam == 2
\* The page size of paginate_or_404.
PerPage == 2

(* Constants of the program. *)

\* limit=vars.pop('limit', 30)
DefaultLimit == 30

(* Values. *)

Anonymous == "anonymous"
Users == {"u1"}
Sessions == {"s1"}
NoKey == "nokey"
None == "None"
TheSlug == "survey"
Slugs == {TheSlug, "unknown"}
AllQuestions == {"q1", "q2"}
QuestionTexts == {"Why?", "How?"}
\* The one question of the survey the entry view is run on.
OneQuestion == [q \in {"q1"} |-> "Why?"]
ReportSlugs == {"r1", "r2"}
Procs == {"p1", "p2"}
\* What one question's form holds in a POST: data that does not validate, one
\* answer, a list of answers; "blank" (save() gives None) is what a GET holds.
FormData == {"invalid", "text", "list"}
\* request.POST of a GET: empty.
NoPost == <<>>

SurveyRows ==
    [is_open : BOOLEAN, require_login : BOOLEAN,
     allow_multiple_submissions : BOOLEAN, moderate_submissions : BOOLEAN,
     public_results : BOOLEAN]

\* A request with no session attribute comes through no session middleware, and
\* so through no authentication: its user is anonymous.
EntryRequests ==
    {r \in [view : {"survey_detail"}, method : {"GET", "POST"}, slug : Slugs,
            user : Users \cup {Anonymous}, has_session : BOOLEAN,
            session_key : Sessions \cup {NoKey},
            post : [DOMAIN questions -> FormData] \cup {NoPost}] :
        /\ r.has_session <=> r.session_key # NoKey
        /\ ~r.has_session => r.user = Anonymous
        /\ r.method = "GET" <=> r.post = NoPost
        /\ r.slug # TheSlug => r.method = "GET" /\ r.user = Anonymous}

NoRequest ==
    [view |-> "none", method |-> "NONE", slug |-> TheSlug, user |-> Anonymous,
     has_session |-> FALSE, session_key |-> NoKey, post |-> NoPost]

(* Responses. *)

Response(status, template, location, forms, entered, thanks) ==
    [status |-> status, template |-> template, location |-> location,
     forms |-> forms, entered |-> entered, thanks |-> thanks]
\* A JSON body: dump(data, response)
Json(data) == [status |-> 200, template |-> "json", data |-> data]

NoResponse == Response(0, "none", "none", "none", FALSE, FALSE)
\* render_with_request(templates, dict(survey, forms, entered, ...), request)
Render(template, forms, entered) ==
    Response(200, template, "none", forms, entered, FALSE)
Redirect(location, thanks) == Response(302, "none", location, "none", FALSE, thanks)
Forbidden == Response(403, "none", "none", "none", FALSE, FALSE)
NotFound == Response(404, "none", "none", "none", FALSE, FALSE)
\* Not a response: survey_detail's call of _survey_submit.
ToSubmit == Response(0, "submit", "none", "none", FALSE, FALSE)
\* An exception no handler catches: the framework answers 500.
ServerError == Response(500, "none", "none", "none", FALSE, FALSE)

\* What a handler leaves behind: its response and the two tables.
Result(resp, subs, ans) == [response |-> resp, submissions |-> subs, answers |-> ans]
\* What a helper gives its caller: a value, or an exception raised.
Value(v) == [raised |-> FALSE, value |-> v]
Raised == [raised |-> TRUE, value |-> FALSE]

---------------------------------------------------------------------------
(* crowdsourcing/models.py and crowdsourcing/forms.py *)

is_authenticated(user) == user # Anonymous
is_anonymous(user) == user = Anonymous

\* Survey.can_have_public_submissions()
can_have_public_submissions(s) == s.public_results

\* Survey.submissions_for(user, session_key): the survey's submissions of the
\* user when one is logged in, else those of the session.
submissions_for(subs, user, session_key) ==
    IF is_authenticated(user)
    THEN {i \in 1..Len(subs) : subs[i].user = user}
    ELSE IF session_key # NoKey
    THEN {i \in 1..Len(subs) : subs[i].session_key = session_key}
    ELSE {}

\* forms[0].save(commit=False): the Submission the submission form builds,
\* which records the session it came from.
submission_form_save(req) ==
    [user |-> None, session_key |-> req.session_key, is_public |-> FALSE]

\* all(form.is_valid() for form in forms)
forms_valid(req) == \A q \in DOMAIN questions : req.post[q] # "invalid"

\* form.save(commit=False) of one question's form: None, an Answer, or a list.
answer_form_save(q, data) ==
    CASE data = "text" -> <<[question |-> q, text_answer |-> "a"]>>
      [] data = "list" -> <<[question |-> q, text_answer |-> "a"],
                            [question |-> q, text_answer |-> "b"]>>
      [] OTHER -> <<>>

---------------------------------------------------------------------------
(* crowdsourcing/views.py: the entry view *)

\* The session key is read off request.session: an AttributeError on a request
\* that has none.
user_entered_survey(req, s, subs) ==
    IF ~req.has_session THEN Raised
    ELSE Value(submissions_for(subs, req.user, req.session_key) # {})

\* A slip: the not of "not survey.allow_multiple_submissions" left out.
user_too_many_entries_NotDropped(req, s, subs) ==
    LET entered == user_entered_survey(req, s, subs)
    IN  IF entered.raised THEN Raised
        ELSE Value(s.allow_multiple_submissions /\ entered.value)

\* all((a, b)) builds the tuple first: both are evaluated whatever a is.
user_too_many_entries(req, s, subs) ==
    LET entered == user_entered_survey(req, s, subs)
    IN  IF entered.raised THEN Raised
        ELSE Value(~s.allow_multiple_submissions /\ entered.value)

get_survey_or_404(slug) == slug = TheSlug

survey_results_redirect(thanks) == Redirect("results", thanks)

survey_show_form(req, s, forms, subs) ==
    LET entered == user_entered_survey(req, s, subs)
    IN  IF entered.raised THEN ServerError
        ELSE Render("survey_detail", forms, entered.value)

\* A slip: survey.is_open left out of the tuple.
can_show_form_OpenNotAsked(req, s, subs) ==
    LET authenticated == is_authenticated(req.user)
        too_many == user_too_many_entries(req, s, subs)
    IN  IF too_many.raised THEN Raised
        ELSE Value(/\ authenticated \/ ~s.require_login
                   /\ ~too_many.value)

can_show_form(req, s, subs) ==
    LET authenticated == is_authenticated(req.user)
        too_many == user_too_many_entries(req, s, subs)
    IN  IF too_many.raised THEN Raised
        ELSE Value(/\ s.is_open
                   /\ authenticated \/ ~s.require_login
                   /\ ~too_many.value)

\* _survey_submit up to forms_for_survey: the response it returns early, or
\* NoResponse when it goes on to the forms.
survey_submit_guard(req, s, subs) ==
    IF s.require_login /\ is_anonymous(req.user) THEN Redirect("login", FALSE)
    ELSE IF ~req.has_session THEN Forbidden
    ELSE IF user_too_many_entries(req, s, subs).value
    THEN Render("already_submitted", "none", FALSE)
    ELSE NoResponse

\* A slip: is_public set to the moderation flag, not to its negation.
new_submission_PublicWhenModerated(req, s) ==
    [submission_form_save(req) EXCEPT
        !.is_public = s.moderate_submissions,
        !.user = IF is_authenticated(req.user) THEN req.user ELSE None]

\* The Submission row _survey_submit saves.
new_submission(req, s) ==
    [submission_form_save(req) EXCEPT
        !.is_public = ~s.moderate_submissions,
        !.user = IF is_authenticated(req.user) THEN req.user ELSE None]

RECURSIVE new_answers(_, _, _)
\* The Answer rows of forms[1:], each given the saved submission.
new_answers(qs, req, id) ==
    IF qs = {} THEN <<>>
    ELSE LET q == CHOOSE x \in qs : TRUE
             rows == answer_form_save(q, req.post[q])
         IN  [i \in 1..Len(rows) |->
                 [submission |-> id, question |-> rows[i].question,
                  text_answer |-> rows[i].text_answer]]
             \o new_answers(qs \ {q}, req, id)

\* _survey_submit from the forms on.
survey_submit_forms(req, s, subs, ans) ==
    IF forms_valid(req)
    THEN LET subs2 == Append(subs, new_submission(req, s))
             ans2 == ans \o new_answers(DOMAIN questions, req, Len(subs2))
         IN  IF can_have_public_submissions(s)
             THEN Result(survey_results_redirect(TRUE), subs2, ans2)
             ELSE Result(survey_show_form(req, s, "none", subs2), subs2, ans2)
    ELSE Result(survey_show_form(req, s, "bound", subs), subs, ans)

survey_submit(req, s, subs, ans) ==
    LET early == survey_submit_guard(req, s, subs)
    IN  IF early # NoResponse THEN Result(early, subs, ans)
        ELSE survey_submit_forms(req, s, subs, ans)

\* A slip: the first test asks for an open survey, not for a closed one.
survey_detail_branch_OpenRedirects(req, s, subs) ==
    IF ~get_survey_or_404(req.slug) THEN NotFound
    ELSE IF s.is_open /\ can_have_public_submissions(s)
    THEN survey_results_redirect(FALSE)
    ELSE LET need_login == /\ s.is_open
                           /\ s.require_login
                           /\ ~is_authenticated(req.user)
             can == can_show_form(req, s, subs)
         IN  IF can.raised THEN ServerError
             ELSE IF can.value
             THEN IF req.method = "POST" THEN ToSubmit
                  ELSE survey_show_form(req, s, "unbound", subs)
             ELSE IF need_login THEN survey_show_form(req, s, "none", subs)
             ELSE IF can_have_public_submissions(s)
             THEN survey_results_redirect(FALSE)
             ELSE survey_show_form(req, s, "none", subs)

\* survey_detail up to the branch it takes: ToSubmit for the POST it hands to
\* _survey_submit, else the response it returns.
survey_detail_branch(req, s, subs) ==
    IF ~get_survey_or_404(req.slug) THEN NotFound
    ELSE IF ~s.is_open /\ can_have_public_submissions(s)
    THEN survey_results_redirect(FALSE)
    ELSE LET need_login == /\ s.is_open
                           /\ s.require_login
                           /\ ~is_authenticated(req.user)
             can == can_show_form(req, s, subs)
         IN  IF can.raised THEN ServerError
             ELSE IF can.value
             THEN IF req.method = "POST" THEN ToSubmit
                  ELSE survey_show_form(req, s, "unbound", subs)
             ELSE IF need_login THEN survey_show_form(req, s, "none", subs)
             ELSE IF can_have_public_submissions(s)
             THEN survey_results_redirect(FALSE)
             ELSE survey_show_form(req, s, "none", subs)

survey_detail(req, s, subs, ans) ==
    LET branch == survey_detail_branch(req, s, subs)
    IN  IF branch = ToSubmit THEN survey_submit(req, s, subs, ans)
        ELSE Result(branch, subs, ans)

---------------------------------------------------------------------------
(* Actions of Spec: one request, or one admin edit, at a time. *)

Init ==
    /\ survey \in SurveyRows
    /\ questions = OneQuestion
    /\ reports = {}
    /\ submissions = <<>>
    /\ answers = <<>>
    /\ request = NoRequest
    /\ response = NoResponse
    /\ procs = <<>>

\* A GET or POST of the entry view, handled from start to end.
SurveyDetail ==
    \E req \in EntryRequests :
        LET res == survey_detail(req, survey, submissions, answers)
        IN  /\ Len(res.submissions) <= MaxSubmissions
            /\ request' = req
            /\ response' = res.response
            /\ submissions' = res.submissions
            /\ answers' = res.answers
            /\ UNCHANGED <<survey, questions, reports, procs>>

\* SurveyAdmin: one of the survey's flags edited (its dates decide is_open).
AdminSaveSurvey ==
    /\ \E f \in DOMAIN survey : survey' = [survey EXCEPT ![f] = ~survey[f]]
    /\ UNCHANGED <<questions, reports, submissions, answers, request, response, procs>>

\* SubmissionAdmin, list_editable is_public: a moderator flips one submission.
AdminModerate ==
    \E i \in 1..Len(submissions) :
        /\ submissions' =
              [submissions EXCEPT ![i].is_public = ~submissions[i].is_public]
        /\ UNCHANGED <<survey, questions, reports, answers, request, response, procs>>

Next == SurveyDetail \/ AdminSaveSurvey \/ AdminModerate

Spec == Init /\ [][Next]_vars

---------------------------------------------------------------------------
(* Properties of the entry view, under Spec. *)

\* The user or session of a request already has a Submission in the table.
HadSubmission(req, subs) ==
    \E i \in 1..Len(subs) :
        \/ req.user # Anonymous /\ subs[i].user = req.user
        \/ /\ req.user = Anonymous
           /\ req.has_session
           /\ subs[i].session_key = req.session_key

\* The request is locked out: a prior entry on a single-entry survey.
LockedOut(req, s, subs) ==
    ~s.allow_multiple_submissions /\ HadSubmission(req, subs)

\* The step handles a request (the admin's edits change the survey, or one
\* Submission in place, and leave the last request as it was).
RequestStep ==
    /\ survey' = survey
    /\ submissions' = submissions \/ Len(submissions') # Len(submissions)

\* The step is a survey_detail request for the live survey.
DetailStep ==
    /\ RequestStep
    /\ request'.view = "survey_detail"
    /\ request'.slug = TheSlug

\* The page that tells a user of a prior entry: no forms, entered set.
AlreadySubmittedPages ==
    {Render("already_submitted", "none", FALSE), Render("survey_detail", "none", TRUE)}

\* C1 as stated: every request of a user or session with a Submission for a
\* single-entry survey is answered by the "already submitted" page.
C1_AlwaysAlreadySubmittedPage ==
    [][DetailStep /\ LockedOut(request', survey, submissions)
          => response' \in AlreadySubmittedPages]_vars

\* C1 amended: such a request never gets the question forms: it is redirected to
\* the results when the survey can have public submissions (but for an anonymous
\* user of an open login-required survey), and else gets the detail page with
\* no forms and entered set.
C1_LockedOutNeverGetsForms ==
    [][DetailStep /\ LockedOut(request', survey, submissions)
          => /\ response'.forms = "none"
             /\ response' =
                  IF /\ can_have_public_submissions(survey)
                     /\ ~(/\ survey.is_open
                          /\ survey.require_login
                          /\ request'.user = Anonymous)
                  THEN Redirect("results", FALSE)
                  ELSE Render("survey_detail", "none", TRUE)]_vars

\* A locked-out user asked for the form of an open survey with private results
\* and got the page without forms.
C1_Witness ==
    /\ request.view = "survey_detail"
    /\ request.method = "GET"
    /\ request.slug = TheSlug
    /\ survey.is_open
    /\ LockedOut(request, survey, submissions)
    /\ response = Render("survey_detail", "none", TRUE)

\* C2: the Submission a request persists has is_public equal to the negation of
\* the survey's moderate_submissions at the time of the request.
C2_PublicIffNotModerated ==
    [][DetailStep /\ submissions' # submissions
          => /\ Len(submissions') = Len(submissions) + 1
             /\ SubSeq(submissions', 1, Len(submissions)) = submissions
             /\ submissions'[Len(submissions')].is_public
                  = ~survey.moderate_submissions]_vars

\* A POST to a moderated survey has just persisted a Submission that is not
\* public.
C2_Witness ==
    /\ request.method = "POST"
    /\ survey.moderate_submissions
    /\ Len(submissions) > 0
    /\ ~submissions[Len(submissions)].is_public
    /\ response \in {Redirect("results", TRUE), Render("survey_detail", "none", TRUE)}

\* The responses of a POST whose form is open: the forms again with their
\* errors, or, the Submission persisted, the thanks redirect or the bare page.
FormOpenPostResponses(entered) ==
    {Render("survey_detail", "bound", entered), Redirect("results", TRUE),
     Render("survey_detail", "none", TRUE)}

\* C3 as stated: an open survey with public results short-circuits to the
\* redirect; else the login requirement; else the prior-entry lock.
C3_OpenWithResultsRedirects ==
    [][DetailStep /\ request'.has_session
          => LET s == survey
                 entered == HadSubmission(request', submissions)
             IN  IF s.is_open /\ can_have_public_submissions(s)
                 THEN response' = Redirect("results", FALSE)
                 ELSE IF s.require_login /\ request'.user = Anonymous
                 THEN response' = Render("survey_detail", "none", entered)
                 ELSE IF LockedOut(request', s, submissions)
                 THEN response' \in AlreadySubmittedPages
                 ELSE IF s.is_open
                 THEN \/ response' = Render("survey_detail", "unbound", entered)
                      \/ /\ request'.method = "POST"
                         /\ response' \in FormOpenPostResponses(entered)
                 ELSE response' = Render("survey_detail", "none", entered)]_vars

\* C3 amended: a request with a session gets the first of these that applies:
\* the survey is closed and can have public submissions, the redirect to the
\* results; it is open, requires login and the user is anonymous, the page
\* without forms (NEEDS_LOGIN); the user is locked out by a prior entry, the
\* redirect if the survey can have public submissions and else the page without
\* forms (ALREADY_SUBMITTED); it is open, the form (FORM_OPEN: the unbound forms
\* on GET, _survey_submit on POST); else (closed, private results) the page
\* without forms (FORM_CLOSED_NO_RESULTS).
C3_DecisionTable ==
    [][DetailStep /\ request'.has_session
          => LET s == survey
                 entered == HadSubmission(request', submissions)
             IN  IF ~s.is_open /\ can_have_public_submissions(s)
                 THEN response' = Redirect("results", FALSE)
                 ELSE IF s.is_open /\ s.require_login /\ request'.user = Anonymous
                 THEN response' = Render("survey_detail", "none", entered)
                 ELSE IF LockedOut(request', s, submissions)
                 THEN response' = IF can_have_public_submissions(s)
                                  THEN Redirect("results", FALSE)
                                  ELSE Render("survey_detail", "none", TRUE)
                 ELSE IF s.is_open
                 THEN IF request'.method = "GET"
                      THEN response' = Render("survey_detail", "unbound", entered)
                      ELSE response' \in FormOpenPostResponses(entered)
                 ELSE response' = Render("survey_detail", "none", entered)]_vars

\* A GET of an open survey with public results was answered by the unbound
\* forms, not by the redirect.
C3_Witness ==
    /\ request.view = "survey_detail"
    /\ request.method = "GET"
    /\ request.slug = TheSlug
    /\ request.has_session
    /\ survey.is_open
    /\ can_have_public_submissions(survey)
    /\ response.status = 200
    /\ response.forms = "unbound"

\* C4 as stated: a request without a session is answered 403, and persists
\* nothing.
C4_NoSessionForbidden ==
    [][DetailStep /\ ~request'.has_session
          => /\ response' = Forbidden
             /\ submissions' = submissions
             /\ answers' = answers]_vars

\* C8: a step that persists a Submission or an Answer is a POST to an open
\* survey, by a user who is logged in unless the survey asks for no login, and
\* who is not locked out by a prior entry.
C8_PersistedOnlyByAllowedPost ==
    [][Len(submissions') # Len(submissions) \/ answers' # answers
          => /\ request'.view = "survey_detail"
             /\ request'.method = "POST"
             /\ request'.slug = TheSlug
             /\ survey.is_open
             /\ request'.user # Anonymous \/ ~survey.require_login
             /\ ~LockedOut(request', survey, submissions)]_vars

\* A POST has persisted a Submission with its Answers.
C8_Witness ==
    /\ request.method = "POST"
    /\ Len(submissions) > 0
    /\ \E i \in 1..Len(answers) : answers[i].submission = Len(submissions)
    /\ response \in {Redirect("results", TRUE), Render("survey_detail", "none", TRUE)}

---------------------------------------------------------------------------
(* SpecConc: survey_detail split at its write.  A request reads the survey    *)
(* and runs the checks of survey_detail and _survey_submit; one whose forms   *)
(* are valid saves its Submission and Answers in a later step, and another    *)
(* request may run in between.                                                *)

Idle == [pc |-> "idle"]

InitConc ==
    /\ survey \in SurveyRows
    /\ questions = OneQuestion
    /\ reports = {}
    /\ submissions = <<>>
    /\ answers = <<>>
    /\ request = NoRequest
    /\ response = NoResponse
    /\ procs = [p \in Procs |-> Idle]

Saving == {p \in Procs : procs[p].pc = "save"}

\* survey_detail and _survey_submit up to all(form.is_valid() ...): the request
\* is answered here unless it goes on to save.
ConcBegin(p) ==
    /\ procs[p].pc = "idle"
    /\ \E req \in EntryRequests :
          LET branch == survey_detail_branch(req, survey, submissions)
              early == IF branch = ToSubmit
                       THEN survey_submit_guard(req, survey, submissions)
                       ELSE branch
          IN  IF branch = ToSubmit /\ early = NoResponse /\ forms_valid(req)
              THEN /\ Len(submissions) + Cardinality(Saving) < MaxSubmissions
                   /\ procs' = [procs EXCEPT ![p] =
                         [pc |-> "save", request |-> req, survey |-> survey]]
                   /\ UNCHANGED <<request, response>>
              ELSE /\ request' = req
                   /\ response' =
                        survey_detail(req, survey, submissions, answers).response
                   /\ UNCHANGED procs
    /\ UNCHANGED <<survey, questions, reports, submissions, answers>>

\* submission.save(), the answers' save(), and the response.
ConcSave(p) ==
    /\ procs[p].pc = "save"
    /\ LET res == survey_submit_forms(procs[p].request, procs[p].survey,
                                      submissions, answers)
       IN  /\ submissions' = res.submissions
           /\ answers' = res.answers
           /\ request' = procs[p].request
           /\ response' = res.response
    /\ procs' = [procs EXCEPT ![p] = Idle]
    /\ UNCHANGED <<survey, questions, reports>>

NextConc == \E p \in Procs : ConcBegin(p) \/ ConcSave(p)

SpecConc == InitConc /\ [][NextConc]_vars

\* C10 as stated: a survey that does not allow multiple submissions never holds
\* two Submissions of one user, or two of one anonymous session.
C10_AtMostOneSubmission ==
    ~survey.allow_multiple_submissions
        => /\ \A u \in Users :
                Cardinality({i \in 1..Len(submissions) :
                                submissions[i].user = u}) <= 1
           /\ \A k \in Sessions :
                Cardinality({i \in 1..Len(submissions) :
                                /\ submissions[i].user = None
                                /\ submissions[i].session_key = k}) <= 1

---------------------------------------------------------------------------
(* crowdsourcing/views.py: the result views.  They read the tables and change *)
(* nothing: SpecReport and SpecAggregate start from arbitrary tables.         *)

SubmissionRows == [user : Users \cup {None}, session_key : Sessions, is_public : BOOLEAN]
AnswerRows == [submission : {1}, question : AllQuestions, text_answer : {"a", "b", None}]
SeqsUpTo(S, n) == UNION {[1..k -> S] : k \in 0..n}

Min(a, b) == IF a <= b THEN a ELSE b

\* seq[start:stop] of Python, for start and stop that are not negative.
Slice(seq, start, stop) ==
    LET last == Min(stop, Len(seq))
    IN  IF start >= last THEN <<>>
        ELSE [i \in 1..(last - start) |-> seq[start + i]]

RECURSIVE PublicIdsFrom(_, _)
\* The ids from i on of the rows that are public, in the order of the table.
PublicIdsFrom(subs, i) ==
    IF i > Len(subs) THEN <<>>
    ELSE (IF subs[i].is_public THEN <<i>> ELSE <<>>) \o PublicIdsFrom(subs, i + 1)

Reverse(seq) == [i \in 1..Len(seq) |-> seq[Len(seq) + 1 - i]]

\* Survey.public_submissions(): the survey's submissions that are public.
public_submissions(subs) == PublicIdsFrom(subs, 1)

\* question.answer_set.values('text_answer').annotate(count=Count("id")) as
\* the dict subData: the question's answers grouped by text_answer, each group
\* with the count of its rows.  The grouping makes a group of the rows whose
\* text_answer is NULL, as of any other value.
answer_counts(q, ans) ==
    LET rows == {i \in 1..Len(ans) : ans[i].question = q}
    IN  [t \in {ans[i].text_answer : i \in rows} |->
            Cardinality({i \in rows : ans[i].text_answer = t})]

\* The ways survey.questions.all() may end: for each question text, the
\* question of that text that comes last.
LastOfText(qs) ==
    {last \in [{qs[q] : q \in DOMAIN qs} -> DOMAIN qs] :
        \A t \in DOMAIN last : qs[last[t]] = t}

\* aggregate_results: questionData[question.question] = subData for each
\* question in turn, so that of two questions of one text the later stays.
aggregate_results(slug, qs, ans, last) ==
    IF ~get_survey_or_404(slug) THEN NotFound
    ELSE Json([t \in DOMAIN last |-> answer_counts(last[t], ans)])

\* A number a request may carry, in the query string or the URL: absent, the
\* digits of n, or text that is no number.
Absent == [given |-> FALSE, digits |-> TRUE, n |-> 0]
Given(n) == [given |-> TRUE, digits |-> TRUE, n |-> n]
NotANumber == [given |-> TRUE, digits |-> FALSE, n |-> 0]

\* The query string of results.json: each of its parameters, or its absence.
ResultsRequests ==
    {r \in [view : {"survey_results_json"}, slug : Slugs,
            limit : {Given(n) : n \in 0..MaxParam} \cup {Absent},
            offset : {Given(n) : n \in 0..MaxParam} \cup {Absent},
            order : {None, "-id"}, countonly : BOOLEAN, callback : BOOLEAN,
            user : Users \cup {None}] :
        /\ r.slug # TheSlug => ~r.countonly /\ ~r.callback /\ r.user = None
        /\ r.slug # TheSlug \/ r.countonly \/ r.callback
              => r.limit = Absent /\ r.offset = Absent /\ r.order = None}

\* vars.pop(name, default), and page = 1 if page is None else ...
Pop(param, default) == IF param.given THEN param.n ELSE default

\* qs.filter(**vars), for the one lookup the requests carry here: user.
results_filter(req, subs, ids) ==
    IF req.user = None THEN ids
    ELSE LET keep(i) == subs[i].user = req.user
         IN  SelectSeq(ids, keep)

\* qs.order_by(order)
results_order(req, ids) == IF req.order = "-id" THEN Reverse(ids) ELSE ids

\* The body of the response: a script calling the callback, or the JSON alone.
results_response(req, data) ==
    [Json(data) EXCEPT !.template = IF req.callback THEN "javascript" ELSE "json"]

survey_results_json(req, subs) ==
    IF ~get_survey_or_404(req.slug) THEN NotFound
    ELSE LET qs == results_filter(req, subs, public_submissions(subs))
             limit == Pop(req.limit, DefaultLimit)
             offset == Pop(req.offset, 0)
             cnt == Len(qs)
         IN  IF req.countonly
             THEN results_response(req, [count |-> cnt, results |-> <<>>])
             ELSE results_response(req,
                     [count |-> cnt,
                      results |-> Slice(results_order(req, qs), offset, limit)])

ReportRequests ==
    {r \in [view : {"survey_report"}, slug : Slugs,
            report : ReportSlugs \cup {""},
            page : {Given(n) : n \in 0..MaxParam} \cup {Absent, NotANumber}] :
        r.slug # TheSlug => r.report = "" /\ r.page = Absent}

\* get_int_or_404(page)
get_int_or_404(page) == page.digits

\* _filter_submissions(requestdata, submissions) reads survey.get_filters(), and
\* survey is no name of its scope, nor of the module: a NameError on every call.
filter_submissions(subs) == Raised

\* paginate_or_404(submissions, page): the page is one of the paginator's.
page_in_range(ids, page) ==
    page >= 1 /\ (page - 1) * PerPage < (IF ids = <<>> THEN 1 ELSE Len(ids))

\* reports.get(slug=report): the report of that slug, or DoesNotExist; catching
\* it names SurveyReport, which the module does not import.
the_report(slugs, report) ==
    IF slugs = {} THEN Value(None)
    ELSE IF report \in slugs THEN Value(report)
    ELSE Raised

survey_report(req, s, slugs, subs) ==
    IF ~get_int_or_404(req.page) THEN NotFound
    ELSE IF ~get_survey_or_404(req.slug) THEN NotFound
    ELSE IF ~can_have_public_submissions(s) THEN NotFound
    ELSE LET page == Pop(req.page, 1)
             filtered == filter_submissions(public_submissions(subs))
         IN  IF filtered.raised THEN ServerError
             ELSE IF ~page_in_range(public_submissions(subs), page) THEN NotFound
             ELSE IF the_report(slugs, req.report).raised THEN ServerError
             ELSE Render("survey_report", "none", FALSE)

InitReport ==
    /\ survey \in {s \in SurveyRows :
                      /\ s.is_open /\ ~s.require_login
                      /\ s.allow_multiple_submissions /\ ~s.moderate_submissions}
    /\ questions = OneQuestion
    /\ reports \in SUBSET ReportSlugs
    /\ submissions \in SeqsUpTo(SubmissionRows, MaxSubmissions)
    /\ answers = <<>>
    /\ request = NoRequest
    /\ response = NoResponse
    /\ procs = <<>>

SurveyResultsJson ==
    /\ \E req \in ResultsRequests :
          /\ request' = req
          /\ response' = survey_results_json(req, submissions)
    /\ UNCHANGED <<survey, questions, reports, submissions, answers, procs>>

SurveyReport ==
    /\ \E req \in ReportRequests :
          /\ request' = req
          /\ response' = survey_report(req, survey, reports, submissions)
    /\ UNCHANGED <<survey, questions, reports, submissions, answers, procs>>

NextReport == SurveyResultsJson \/ SurveyReport

SpecReport == InitReport /\ [][NextReport]_vars

InitAggregate ==
    /\ survey \in {s \in SurveyRows :
                      /\ s.is_open /\ ~s.require_login /\ s.public_results
                      /\ s.allow_multiple_submissions /\ ~s.moderate_submissions}
    /\ questions \in [AllQuestions -> QuestionTexts]
    /\ reports = {}
    /\ submissions = <<[user |-> None, session_key |-> "s1", is_public |-> TRUE]>>
    /\ answers \in SeqsUpTo(AnswerRows, MaxAnswers)
    /\ request = NoRequest
    /\ response = NoResponse
    /\ procs = <<>>

AggregateResults ==
    /\ \E slug \in Slugs, last \in LastOfText(questions) :
          /\ request' = [view |-> "aggregate_results", slug |-> slug]
          /\ response' = aggregate_results(slug, questions, answers, last)
    /\ UNCHANGED <<survey, questions, reports, submissions, answers, procs>>

NextAggregate == AggregateResults

SpecAggregate == InitAggregate /\ [][NextAggregate]_vars

---------------------------------------------------------------------------
(* Properties of the result views. *)

\* The survey's entity a survey_report request names is missing.
ReportMissing(req) ==
    \/ req.slug # TheSlug
    \/ ~can_have_public_submissions(survey)
    \/ ~req.page.digits
    \/ req.page.given
       /\ ~page_in_range(public_submissions(submissions), req.page.n)
    \/ req.report \notin reports
       /\ ~(req.report = "" /\ Cardinality(reports) = 1)

\* C5 as stated: survey_report answers "not found" whenever the survey, the
\* page or the report asked for is missing.
C5_MissingIsNotFound ==
    (request.view = "survey_report" /\ ReportMissing(request))
        => response = NotFound

RECURSIVE SumCounts(_, _)
SumCounts(counts, keys) ==
    IF keys = {} THEN 0
    ELSE LET k == CHOOSE x \in keys : TRUE
         IN  counts[k] + SumCounts(counts, keys \ {k})

\* C7 as stated: for every question, the counts aggregate_results returns sum to
\* the number of the question's Answers whose text_answer is not null.
C7_CountsSumToNonNullAnswers ==
    (request.view = "aggregate_results" /\ request.slug = TheSlug)
        => \A q \in DOMAIN questions :
              SumCounts(response.data[questions[q]],
                        DOMAIN response.data[questions[q]])
                = Cardinality({i \in 1..Len(answers) :
                                  /\ answers[i].question = q
                                  /\ answers[i].text_answer # None})

\* The window of a list that starts at position offset (from 0) and holds at
\* most limit entries.
Window(seq, offset, limit) ==
    [i \in 1..Min(limit, IF Len(seq) > offset THEN Len(seq) - offset ELSE 0)
        |-> seq[offset + i]]

\* C9 as stated: without countonly, results.json returns positions offset ..
\* offset+limit-1 of the filtered, ordered public submissions.
C9_WindowStartsAtOffset ==
    (/\ request.view = "survey_results_json"
     /\ request.slug = TheSlug
     /\ ~request.countonly)
        => response.data.results =
              Window(results_order(request,
                        results_filter(request, submissions,
                                       public_submissions(submissions))),
                     Pop(request.offset, 0), Pop(request.limit, DefaultLimit))

---------------------------------------------------------------------------
(* crowdsourcing/admin.py: QuestionForm.clean_fieldname.  A string is the     *)
(* sequence of its characters.                                                *)

Letters ==
    {"a", "b", "c", "d", "e", "f", "g", "h", "i", "j", "k", "l", "m",
     "n", "o", "p", "q", "r", "s", "t", "u", "v", "w", "x", "y", "z",
     "A", "B", "C", "D", "E", "F", "G", "H", "I", "J", "K", "L", "M",
     "N", "O", "P", "Q", "R", "S", "T", "U", "V", "W", "X", "Y", "Z"}
Digits == {"0", "1", "2", "3", "4", "5", "6", "7", "8", "9"}
Whitespace == {" ", "\n", "\t"}
\* The characters the fieldnames tried are made of: a letter of each case, a
\* digit, the underscore, a blank, a line break and a hyphen.
Chars == {"a", "Z", "1", "_", " ", "\n", "-"}
Fieldnames == SeqsUpTo(Chars, MaxLen)
Question1 == <<"q", "u", "e", "s", "t", "i", "o", "n", "_", "1">>

RECURSIVE lstrip(_)
lstrip(str) ==
    IF str # <<>> /\ Head(str) \in Whitespace THEN lstrip(Tail(str)) ELSE str

RECURSIVE rstrip(_)
rstrip(str) ==
    IF str # <<>> /\ str[Len(str)] \in Whitespace
    THEN rstrip(SubSeq(str, 1, Len(str) - 1))
    ELSE str

\* str.strip()
strip(str) == rstrip(lstrip(str))

RECURSIVE match_word_chars(_, _)
\* [a-zA-Z0-9_]*$ from position i of str: the star takes what it can and gives
\* back as needed, and $ holds at the end and before a line break that ends
\* the string.
match_word_chars(str, i) ==
    \/ i = Len(str) + 1
    \/ i = Len(str) /\ str[i] = "\n"
    \/ /\ i <= Len(str)
       /\ str[i] \in Letters \cup Digits \cup {"_"}
       /\ match_word_chars(str, i + 1)

\* re.match(r'^[a-zA-Z][a-zA-Z0-9_]*$', str)
re_match_fieldname(str) ==
    /\ str # <<>>
    /\ str[1] \in Letters
    /\ match_word_chars(str, 2)

\* A slip: the fieldname matched as it came, not stripped.
clean_fieldname_NotStripped(raw) ==
    IF ~re_match_fieldname(raw)
    THEN [valid |-> FALSE, value |-> <<>>]
    ELSE [valid |-> TRUE, value |-> raw]

\* clean_fieldname: the stripped fieldname, or a ValidationError.
clean_fieldname(raw) ==
    LET fieldname == strip(raw)
    IN  IF ~re_match_fieldname(fieldname)
        THEN [valid |-> FALSE, value |-> <<>>]
        ELSE [valid |-> TRUE, value |-> fieldname]

InitAdmin ==
    /\ survey \in {s \in SurveyRows :
                      /\ s.is_open /\ ~s.require_login /\ s.public_results
                      /\ s.allow_multiple_submissions /\ ~s.moderate_submissions}
    /\ questions = <<>>
    /\ reports = {}
    /\ submissions = <<>>
    /\ answers = <<>>
    /\ request = [view |-> "none", fieldname |-> <<>>]
    /\ response = [valid |-> FALSE, value |-> <<>>]
    /\ procs = <<>>

\* The admin saves a Question whose form holds some fieldname.
CleanFieldname ==
    /\ \E raw \in Fieldnames :
          /\ request' = [view |-> "clean_fieldname", fieldname |-> raw]
          /\ response' = clean_fieldname(raw)
    /\ UNCHANGED <<survey, questions, reports, submissions, answers, procs>>

NextAdmin == CleanFieldname

SpecAdmin == InitAdmin /\ [][NextAdmin]_vars

\* str is made of [a-zA-Z][a-zA-Z0-9_]* and nothing else.
IsFieldname(str) ==
    /\ Len(str) >= 1
    /\ str[1] \in Letters
    /\ \A i \in 1..Len(str) : str[i] \in Letters \cup Digits \cup {"_"}

\* core is raw without its surrounding whitespace.
IsStripped(core, raw) ==
    /\ core = <<>> \/ (core[1] \notin Whitespace /\ core[Len(core)] \notin Whitespace)
    /\ \E i \in 0..Len(raw) :
          /\ i + Len(core) <= Len(raw)
          /\ \A j \in 1..Len(core) : raw[i + j] = core[j]
          /\ \A j \in 1..Len(raw) :
                (j <= i \/ j > i + Len(core)) => raw[j] \in Whitespace

\* C6: clean_fieldname accepts a fieldname exactly when, stripped of its
\* surrounding whitespace, it matches [a-zA-Z][a-zA-Z0-9_]*, and then returns the
\* stripped value: it raises for one that, stripped, is empty, starts with a
\* digit or an underscore, or holds a character outside [a-zA-Z0-9_]; it
\* accepts question_1.
C6_FieldnameRule ==
    /\ clean_fieldname(Question1) = [valid |-> TRUE, value |-> Question1]
    /\ request.view = "clean_fieldname" =>
          LET raw == request.fieldname
              cores == {c \in SeqsUpTo(Chars, Len(raw)) : IsStripped(c, raw)}
          IN  /\ Cardinality(cores) = 1
              /\ \A core \in cores :
                    /\ response.valid <=> IsFieldname(core)
                    /\ response.valid => response.value = core
                    /\ \/ core = <<>>
                       \/ core[1] \in Digits \cup {"_"}
                       \/ \E i \in 1..Len(core) :
                             core[i] \notin Letters \cup Digits \cup {"_"}
                       => ~response.valid

\* A fieldname with whitespace around it was accepted and returned without it.
C6_Witness ==
    /\ request.view = "clean_fieldname"
    /\ response.valid
    /\ response.value # request.fieldname
    /\ Len(response.value) >= 2

====
